---- MODULE Spec2Model ----
(***************************************************************************)
(* Model of the MemorySize value type (src/memory_size.rs).                *)
(*                                                                         *)
(* A MemorySize wraps one u64, size_bits, so a value is modelled by that   *)
(* number.  A caller picks an operation and its arguments, the operation   *)
(* runs to completion (a value or a panic), and the caller returns to      *)
(* idle.  The u64 is modelled at a reduced width, U64_BITS, with the same  *)
(* wrap-around arithmetic; the crate's own overflow behaviour depends on   *)
(* the build profile (overflow-checks on: panic, off: two's complement     *)
(* wrap), which is the variable overflow_checks, fixed at start.           *)
(***************************************************************************)
EXTENDS Integers, Sequences, FiniteSets, TLC

VARIABLES overflow_checks, op, arg1, arg2, args, panicked, ret

vars == <<overflow_checks, op, arg1, arg2, args, panicked, ret>>

(* ---------------- bounds and program constants ---------------- *)

\* width of the modelled u64
U64_BITS == 7

\* longest sequence handed to Iterator::sum
MaxLen == 3

BITS_IN_BYTE == 8

RECURSIVE Pow2(_)
Pow2(n) == IF n = 0 THEN 1 ELSE 2 * Pow2(n - 1)

Modulus == Pow2(U64_BITS)

U64_MAX == Modulus - 1

U64 == 0..U64_MAX

\* outcome of an operation that panicked instead of producing a u64
PANIC == -1

(* ---------------- u64 arithmetic of the crate ---------------- *)

\* `x + y` on u64: panics with overflow-checks, wraps without
u64_add(x, y) ==
    IF x + y <= U64_MAX THEN x + y
    ELSE IF overflow_checks THEN PANIC ELSE (x + y) % Modulus

\* `x - y` on u64: panics with overflow-checks, wraps without
u64_sub(x, y) ==
    IF x >= y THEN x - y
    ELSE IF overflow_checks THEN PANIC ELSE (x - y) % Modulus

\* `x * y` on u64: panics with overflow-checks, wraps without
u64_mul(x, y) ==
    IF x * y <= U64_MAX THEN x * y
    ELSE IF overflow_checks THEN PANIC ELSE (x * y) % Modulus

\* u64::checked_mul(..).unwrap(): panics on overflow in every build
checked_mul_unwrap(x, y) ==
    IF x * y <= U64_MAX THEN x * y ELSE PANIC

\* u64::div_ceil
div_ceil(x, d) ==
    IF x % d > 0 THEN (x \div d) + 1 ELSE x \div d

(* ---------------- constructors ---------------- *)

new == 0

from_bytes_wrapping(size_bytes) == (size_bytes * BITS_IN_BYTE) % Modulus

from_bytes(size_bytes) == checked_mul_unwrap(size_bytes, BITS_IN_BYTE)

from_bits(bits) == bits

from_bits_ceil(bits) == u64_mul(div_ceil(bits, BITS_IN_BYTE), BITS_IN_BYTE)

(* ---------------- accessors ---------------- *)

size_bytes_floor(self) == self \div BITS_IN_BYTE

size_bytes(self) ==
    IF self % BITS_IN_BYTE = 0 THEN self \div BITS_IN_BYTE ELSE PANIC

size_bits(self) == self

size_bits_bytes(self) == <<self % BITS_IN_BYTE, self \div BITS_IN_BYTE>>

(* ---------------- alignment ---------------- *)

align_up(self, alignment) ==
    IF self = 0 THEN self
    ELSE IF alignment = 0 THEN self
    ELSE LET sum == u64_add(self, alignment)
             too_much == IF sum = PANIC THEN PANIC ELSE u64_sub(sum, 1)
         IN  IF too_much = PANIC THEN PANIC
             ELSE (too_much \div alignment) * alignment

round_up_byte(self) == align_up(self, from_bytes(1))

(* ---------------- derived operators ---------------- *)

\* #[derive(Add)]: size_bits + rhs.size_bits
add(self, rhs) == u64_add(self, rhs)

\* #[derive(Sub)]: size_bits - rhs.size_bits
sub(self, rhs) == u64_sub(self, rhs)

\* #[derive(AddAssign)]: size_bits += rhs.size_bits
add_assign(self, rhs) == u64_add(self, rhs)

\* #[derive(SubAssign)]: size_bits -= rhs.size_bits
sub_assign(self, rhs) == u64_sub(self, rhs)

\* #[derive(Sum)]: fold of Add::add from the zero value, left to right
RECURSIVE fold_add(_, _)
fold_add(acc, s) ==
    IF acc = PANIC THEN PANIC
    ELSE IF s = <<>> THEN acc
    ELSE fold_add(add(acc, Head(s)), Tail(s))

sum(s) == fold_add(new, s)

(* ---------------- Display ---------------- *)

Digit(d) == CASE d = 0 -> "0" [] d = 1 -> "1" [] d = 2 -> "2" [] d = 3 -> "3"
              [] d = 4 -> "4" [] d = 5 -> "5" [] d = 6 -> "6" [] d = 7 -> "7"
              [] d = 8 -> "8" [] d = 9 -> "9"

\* decimal rendering of a u64 by `{}`
RECURSIVE to_string(_)
to_string(n) == IF n < 10 THEN Digit(n) ELSE to_string(n \div 10) \o Digit(n % 10)

\* write!(f, "{}bit", self.size_bits())
fmt(self) == to_string(size_bits(self)) \o "bit"

(* ---------------- the caller ---------------- *)

\* sizes summed by the caller: the ends and the middle of the range
SumElems == {0, 1, 2, U64_MAX \div 2, (U64_MAX \div 2) + 1, U64_MAX - 1, U64_MAX}

RECURSIVE SeqsUpTo(_)
SeqsUpTo(n) ==
    IF n = 0 THEN {<<>>}
    ELSE LET shorter == SeqsUpTo(n - 1)
         IN  shorter \cup {Append(s, e) : s \in {t \in shorter : Len(t) = n - 1}, e \in SumElems}

SumInputs == SeqsUpTo(MaxLen)

\* record the value r of operation o called with a, b and sequence s;
\* the accessors returning a pair or a string have no panicking path
Returns(o, a, b, s, r) ==
    /\ op = "idle"
    /\ op' = o
    /\ arg1' = a
    /\ arg2' = b
    /\ args' = s
    /\ panicked' = FALSE
    /\ ret' = r
    /\ UNCHANGED overflow_checks

\* record the outcome r, a u64 or a panic, of operation o
Finish(o, a, b, s, r) ==
    /\ op = "idle"
    /\ op' = o
    /\ arg1' = a
    /\ arg2' = b
    /\ args' = s
    /\ panicked' = (r = PANIC)
    /\ ret' = IF r = PANIC THEN 0 ELSE r
    /\ UNCHANGED overflow_checks

Init ==
    /\ overflow_checks \in BOOLEAN
    /\ op = "idle"
    /\ arg1 = 0
    /\ arg2 = 0
    /\ args = <<>>
    /\ panicked = FALSE
    /\ ret = new

FromBytes ==
    /\ op = "idle"
    /\ \E n \in U64 : Finish("from_bytes", n, 0, <<>>, from_bytes(n))

FromBitsCeil ==
    /\ op = "idle"
    /\ \E n \in U64 : Finish("from_bits_ceil", n, 0, <<>>, from_bits_ceil(n))

SizeBytes ==
    /\ op = "idle"
    /\ \E n \in U64 : Finish("size_bytes", n, 0, <<>>, size_bytes(from_bits(n)))

SizeBitsBytes ==
    /\ op = "idle"
    /\ \E n \in U64 : Returns("size_bits_bytes", n, 0, <<>>, size_bits_bytes(from_bits(n)))

AlignUp ==
    /\ op = "idle"
    /\ \E a \in U64, b \in U64 : Finish("align_up", a, b, <<>>, align_up(from_bits(a), from_bits(b)))

RoundUpByte ==
    /\ op = "idle"
    /\ \E n \in U64 : Finish("round_up_byte", n, 0, <<>>, round_up_byte(from_bits(n)))

Add ==
    /\ op = "idle"
    /\ \E a \in U64, b \in U64 : Finish("add", a, b, <<>>, add(from_bits(a), from_bits(b)))

Sub ==
    /\ op = "idle"
    /\ \E a \in U64, b \in U64 : Finish("sub", a, b, <<>>, sub(from_bits(a), from_bits(b)))

AddAssign ==
    /\ op = "idle"
    /\ \E a \in U64, b \in U64 : Finish("add_assign", a, b, <<>>, add_assign(from_bits(a), from_bits(b)))

SubAssign ==
    /\ op = "idle"
    /\ \E a \in U64, b \in U64 : Finish("sub_assign", a, b, <<>>, sub_assign(from_bits(a), from_bits(b)))

Sum ==
    /\ op = "idle"
    /\ \E s \in SumInputs : Finish("sum", 0, 0, s, sum(s))

Display ==
    /\ op = "idle"
    /\ \E n \in U64 : Returns("fmt", n, 0, <<>>, fmt(from_bits(n)))

\* the caller drops the result and is ready for the next call
Return ==
    /\ op # "idle"
    /\ op' = "idle"
    /\ arg1' = 0
    /\ arg2' = 0
    /\ args' = <<>>
    /\ panicked' = FALSE
    /\ ret' = new
    /\ UNCHANGED overflow_checks

Next ==
    \/ FromBytes
    \/ FromBitsCeil
    \/ SizeBytes
    \/ SizeBitsBytes
    \/ AlignUp
    \/ RoundUpByte
    \/ Add
    \/ Sub
    \/ AddAssign
    \/ SubAssign
    \/ Sum
    \/ Display
    \/ Return

Spec == Init /\ [][Next]_vars

(* ================= properties ================= *)

\* ceil(a / d) * d over the unbounded integers, d > 0
CeilMultiple(a, d) == ((a + d - 1) \div d) * d

\* arithmetic total of the first k elements of s, over the unbounded integers
RECURSIVE PrefixTotal(_, _)
PrefixTotal(s, k) == IF k = 0 THEN 0 ELSE PrefixTotal(s, k - 1) + s[k]

\* C1: for every self and non-zero alignment with ceil(self/alignment)*alignment
\* <= u64::MAX, align_up neither panics nor wraps and returns exactly that value.
C1_AlignUpSmallestMultiple ==
    (op = "align_up" /\ arg2 # 0 /\ CeilMultiple(arg1, arg2) <= U64_MAX)
        => (~panicked /\ ret = CeilMultiple(arg1, arg2))

\* C2: x.align_up(zero) = x, zero.align_up(x) = zero and x.align_up(x) = x
\* for every x of the u64 range.
C2_AlignUpIdentities ==
    op = "align_up" =>
        /\ (arg2 = 0 => (~panicked /\ ret = arg1))
        /\ (arg1 = 0 => (~panicked /\ ret = 0))
        /\ (arg1 = arg2 => (~panicked /\ ret = arg1))

\* C3: from_bytes(n) has size_bits() = n * 8 and size_bytes() = n when n * 8
\* fits in u64, and panics (never wraps, never saturates) when it does not.
C3_FromBytes ==
    op = "from_bytes" =>
        IF arg1 * BITS_IN_BYTE <= U64_MAX
        THEN /\ ~panicked
             /\ size_bits(ret) = arg1 * BITS_IN_BYTE
             /\ size_bytes(ret) = arg1
        ELSE panicked

\* C3 witness: a byte count whose bit count overflows, in a build without
\* overflow checks, and from_bytes panicked.
C3_Witness ==
    /\ op = "from_bytes"
    /\ arg1 * BITS_IN_BYTE > U64_MAX
    /\ ~overflow_checks
    /\ panicked

\* C4: from_bits_ceil(n) panics only when the smallest multiple of 8 >= n
\* exceeds u64::MAX, and otherwise returns that multiple (so size_bytes() is
\* ceil(n / 8)); it never returns a wrapped value below n.
C4_FromBitsCeil ==
    op = "from_bits_ceil" =>
        /\ panicked => CeilMultiple(arg1, BITS_IN_BYTE) > U64_MAX
        /\ ~panicked => /\ ret = CeilMultiple(arg1, BITS_IN_BYTE)
                        /\ ret >= arg1
                        /\ size_bytes(ret) = CeilMultiple(arg1, BITS_IN_BYTE) \div BITS_IN_BYTE

\* C5: a + b (and a += b) panics exactly when a.bits + b.bits > u64::MAX;
\* otherwise it is a.bits + b.bits, equals b + a, and (a + b) - b = a.
C5_Addition ==
    op \in {"add", "add_assign"} =>
        IF arg1 + arg2 <= U64_MAX
        THEN /\ ~panicked
             /\ size_bits(ret) = arg1 + arg2
             /\ ret = add(from_bits(arg2), from_bits(arg1))
             /\ sub(ret, from_bits(arg2)) = from_bits(arg1)
        ELSE panicked

\* C6: a - b (and a -= b) panics exactly when a < b, never producing a
\* negative or wrapped value; otherwise the result v satisfies v + b = a.
C6_Subtraction ==
    op \in {"sub", "sub_assign"} =>
        IF arg1 < arg2
        THEN panicked
        ELSE /\ ~panicked
             /\ add(ret, from_bits(arg2)) = from_bits(arg1)

\* C7: Iterator::sum is the left fold of + from zero: the empty sequence sums
\* to zero, a sequence whose prefix totals all fit sums to the exact total,
\* and the sum panics as soon as a prefix total exceeds u64::MAX.
C7_Sum ==
    op = "sum" =>
        /\ args = <<>> => (~panicked /\ ret = 0)
        /\ IF \A k \in 1..Len(args) : PrefixTotal(args, k) <= U64_MAX
           THEN ~panicked /\ ret = PrefixTotal(args, Len(args))
           ELSE panicked

\* C8: size_bytes() panics iff size_bits() is not a multiple of 8 and
\* otherwise returns size_bits() / 8; size_bits_bytes() never panics and
\* returns (r, q) with 0 <= r < 8 and 8 * q + r = size_bits().
C8_ByteAccessors ==
    /\ op = "size_bytes" =>
        /\ panicked <=> (arg1 % BITS_IN_BYTE # 0)
        /\ ~panicked => ret = arg1 \div BITS_IN_BYTE
    /\ op = "size_bits_bytes" =>
        /\ ~panicked
        /\ ret[1] \in 0..(BITS_IN_BYTE - 1)
        /\ BITS_IN_BYTE * ret[2] + ret[1] = arg1

\* C8 witness: the strict accessor was called on a size that is not a whole
\* number of bytes, and it panicked.
C8_Witness ==
    /\ op = "size_bytes"
    /\ arg1 % BITS_IN_BYTE # 0
    /\ panicked

\* C9: Display renders the byte count on the binary-kilo scale: zero is
\* "0 B" and from_bytes(10) is "10 B" (the kB, MB and GB examples lie above
\* the modelled width).
C9_DisplayHumanReadable ==
    op = "fmt" =>
        /\ (arg1 = 0 => ret = "0 B")
        /\ (arg1 = 10 * BITS_IN_BYTE => ret = "10 B")

\* C10: round_up_byte() is align_up(from_bytes(1)); on a multiple of 8 (zero
\* and the largest one included) it returns the size unchanged without a
\* panic; and whenever the smallest multiple of 8 >= n fits in u64 it agrees
\* with from_bits_ceil(n).
C10_RoundUpByte ==
    op = "round_up_byte" =>
        /\ (IF panicked THEN PANIC ELSE ret) = align_up(from_bits(arg1), from_bytes(1))
        /\ (arg1 % BITS_IN_BYTE = 0) => (~panicked /\ ret = arg1)
        /\ (CeilMultiple(arg1, BITS_IN_BYTE) <= U64_MAX) =>
              /\ ~panicked
              /\ ret = CeilMultiple(arg1, BITS_IN_BYTE)
              /\ ret = from_bits_ceil(arg1)

====
